---------------------------- MODULE Spec2Model ----------------------------
(***************************************************************************)
(* A model of the rsudoku solving engine (src/src/main.rs): the per-cell   *)
(* SudokuValue with its remove primitive, the SudokuBoard geometry, the    *)
(* propagators inital_check / fill_space / narrow / narrow_full, the guess *)
(* heuristic most_impactful_guess and the recursive solve.                 *)
(*                                                                         *)
(* A cell is a record: Known(v) or Unknown(possible), where possible is    *)
(* the Vec<usize> of the source, kept as a sequence because swap_remove    *)
(* reorders it and the guess heuristic scans it in that order.             *)
(* A point is <<x, y>> with spaces[x][y] the cell, as in the source.       *)
(***************************************************************************)
EXTENDS Integers, Sequences, FiniteSets, TLC

Idx == 0..8

Digits == 1..9

Points == Idx \X Idx

\* F(x), with x evaluated once, before F is applied: a value bound by a
\* quantifier is computed when it is bound, whatever the number of its uses.
With(x, F(_)) == CHOOSE y \in {F(v) : v \in {x}} : TRUE

------------------------------------------------------------------------------
(* SudokuValue *)

Known(v) == [known |-> TRUE, value |-> v, possible |-> <<>>]

Unknown(pv) == [known |-> FALSE, value |-> 0, possible |-> pv]

AllDigits == <<1, 2, 3, 4, 5, 6, 7, 8, 9>>

NoValue == [some |-> FALSE, cell |-> Known(0)]

\* Characters are modelled by their code points: '0' = 48, '1'..'9' = 49..57,
\* 'A'..'Z' = 65..90, 'a'..'z' = 97..122.
From(c) ==
    IF c \in 49..57 THEN [some |-> TRUE, cell |-> Known(c - 48)]
    ELSE IF c \in 97..122 \/ c \in 65..90 \/ c = 48
         THEN [some |-> TRUE, cell |-> Unknown(AllDigits)]
         ELSE NoValue

is_known(cell) == cell.known

Contains(s, v) == \E k \in 1..Len(s) : s[k] = v

\* Index of the first element equal to v (iter().position), 0 when absent.
Position(s, v) ==
    IF Contains(s, v)
    THEN CHOOSE k \in 1..Len(s) : s[k] = v /\ \A m \in 1..(k - 1) : s[m] # v
    ELSE 0

\* Vec::swap_remove: the last element takes the place of the removed one.
SwapRemove(s, k) ==
    IF k = Len(s) THEN SubSeq(s, 1, Len(s) - 1)
    ELSE SubSeq(s, 1, k - 1) \o <<s[Len(s)]>> \o SubSeq(s, k + 1, Len(s) - 1)

\* The mutation that drops the last possible value, whatever the index found.
RemoveLast(pv, k) ==
    With(SubSeq(pv, 1, Len(pv) - 1),
         LAMBDA rest : IF Len(rest) = 1
                       THEN [cell |-> Known(rest[1]), res |-> "ValueNowKnown"]
                       ELSE [cell |-> Unknown(rest), res |-> "PossibleValueRemoved"])

\* The mutation without the test of the length: the space stays Unknown.
RemoveAtUnknown(pv, k) ==
    With(SwapRemove(pv, k),
         LAMBDA rest : [cell |-> Unknown(rest), res |-> "PossibleValueRemoved"])

\* The mutation of an Unknown cell once the value was found at index k.
RemoveAt(pv, k) ==
    With(SwapRemove(pv, k),
         LAMBDA rest : IF Len(rest) = 1
                       THEN [cell |-> Known(rest[1]), res |-> "ValueNowKnown"]
                       ELSE [cell |-> Unknown(rest), res |-> "PossibleValueRemoved"])

\* remove that lets a Known space keep the value it is asked to remove.
RemoveNoErr(cell, v) ==
    IF cell.known \/ Position(cell.possible, v) = 0
    THEN [cell |-> cell, res |-> "PossibleValueAlreadyRemoved"]
    ELSE RemoveAt(cell.possible, Position(cell.possible, v))

\* SudokuValue::remove: the cell afterwards and the result; "Err" is Result::Err.
Remove(cell, v) ==
    IF cell.known
    THEN IF cell.value = v
         THEN [cell |-> cell, res |-> "Err"]
         ELSE [cell |-> cell, res |-> "PossibleValueAlreadyRemoved"]
    ELSE IF Position(cell.possible, v) = 0
         THEN [cell |-> cell, res |-> "PossibleValueAlreadyRemoved"]
         ELSE RemoveAt(cell.possible, Position(cell.possible, v))

------------------------------------------------------------------------------
(* SudokuBoard: geometry *)

RECURSIVE RowsAndColumns(_, _)
\* The first loop of get_adjecent_spaces, from index i on.
RowsAndColumns(point, i) ==
    IF i > 8 THEN <<>>
    ELSE (IF i # point[1] THEN << <<i, point[2]>> >> ELSE <<>>)
         \o (IF i # point[2] THEN << <<point[1], i>> >> ELSE <<>>)
         \o RowsAndColumns(point, i + 1)

\* The two coordinates taken from the first box, whatever the box of c.
BoxOthersFirst(c) == SelectSeq(<<0, 1, 2>>, LAMBDA j : c % 3 # j)

\* box_x / box_y: the two coordinates of the box that differ from c.
BoxOthers(c) ==
    LET js == SelectSeq(<<0, 1, 2>>, LAMBDA j : c % 3 # j)
    IN  [k \in 1..Len(js) |-> js[k] + ((c \div 3) * 3)]

BoxSpaces(point) ==
    LET box_x == BoxOthers(point[1])
        box_y == BoxOthers(point[2])
    IN  [k \in 1..(Len(box_x) * Len(box_y)) |->
            <<box_x[((k - 1) \div Len(box_y)) + 1], box_y[((k - 1) % Len(box_y)) + 1]>>]

\* The adjecent spaces without those of the box.
RowAndColumnOnly(point) == RowsAndColumns(point, 0)

get_adjecent_spaces(point) == RowsAndColumns(point, 0) \o BoxSpaces(point)

RECURSIVE AdjecentUpTo(_)
AdjecentUpTo(n) ==
    IF n = 0 THEN <<>>
    ELSE Append(AdjecentUpTo(n - 1), get_adjecent_spaces(<<(n - 1) \div 9, (n - 1) % 9>>))

\* get_adjecent_spaces of every point, computed once: the entry of <<x, y>>
\* is the (9 * x + y + 1)-th.
AdjecentTable == AdjecentUpTo(81)

Adjecent(point) == AdjecentTable[9 * point[1] + point[2] + 1]

RECURSIVE RowColumnUnits(_)
RowColumnUnits(i) ==
    IF i > 8 THEN <<>>
    ELSE << [k \in 1..9 |-> <<i, k - 1>>], [k \in 1..9 |-> <<k - 1, i>>] >>
         \o RowColumnUnits(i + 1)

BoxUnits ==
    [b \in 1..9 |->
        [k \in 1..9 |-> <<((b - 1) \div 3) * 3 + ((k - 1) % 3),
                          ((b - 1) % 3) * 3 + ((k - 1) \div 3)>>]]

get_all_full_corrdinates == RowColumnUnits(0) \o BoxUnits

------------------------------------------------------------------------------
(* SudokuBoard: construction *)

\* The character loop of SudokuBoard::new: the recognised cells in reading
\* order; the loop breaks once nine rows of nine are filled.
Scan(text) ==
    LET recognised == SelectSeq(text, LAMBDA c : From(c).some)
    IN  [k \in 1..(IF Len(recognised) < 81 THEN Len(recognised) ELSE 81) |->
            From(recognised[k]).cell]

CountUnknown(cells) == Cardinality({k \in 1..Len(cells) : ~is_known(cells[k])})

CountKnown(cells) == Cardinality({k \in 1..Len(cells) : is_known(cells[k])})

\* SudokuBoard::new on the text already read from the file.
New(text) ==
    LET cells == Scan(text)
    IN  IF CountKnown(cells) + CountUnknown(cells) # 81
        THEN [ok |-> FALSE,
              board |-> [spaces |-> <<>>, empty_spaces |-> 0, initalised |-> FALSE]]
        ELSE [ok |-> TRUE,
              board |-> [spaces |-> [x \in Idx |-> [y \in Idx |-> cells[x * 9 + y + 1]]],
                         empty_spaces |-> CountUnknown(cells),
                         initalised |-> FALSE]]

is_solved(b) == b.empty_spaces = 0

get_space(b, point) == b.spaces[point[1]][point[2]]

------------------------------------------------------------------------------
(* Propagators.  The loops and the recursion of the source are run as small *)
(* machines, a step at a time: Run(st, n) makes up to n steps by halving n, *)
(* which keeps the evaluation shallow.                                      *)

\* The spaces in reading order, as the nested loops over i and j visit them.
ReadingOrder == [n \in 1..81 |-> <<(n - 1) \div 9, (n - 1) % 9>>]

\* The queue inital_check starts from: every Known space with its value.
RECURSIVE KnownIn(_, _, _)
\* The entries for the lo-th to the hi-th space of the reading order.
KnownIn(spaces, lo, hi) ==
    IF lo = hi
    THEN IF spaces[(lo - 1) \div 9][(lo - 1) % 9].known
         THEN << <<(lo - 1) \div 9, (lo - 1) % 9,
                   spaces[(lo - 1) \div 9][(lo - 1) % 9].value>> >>
         ELSE <<>>
    ELSE With((lo + hi) \div 2,
              LAMBDA mid : KnownIn(spaces, lo, mid) \o KnownIn(spaces, mid + 1, hi))

KnownPoints(spaces) == KnownIn(spaces, 1, 81)

\* One step of the loops of inital_check.  st.cur is the entry popped from the
\* queue and st.k the next of its adjecent spaces; st.k = 0 before a pop.
CheckStep(st) ==
    IF st.k = 0
    THEN IF st.queue = <<>> THEN [st EXCEPT !.done = TRUE]
         ELSE [st EXCEPT !.cur = Head(st.queue), !.queue = Tail(@), !.k = 1]
    ELSE LET adj == Adjecent(st.cur)
         IN  IF st.k > Len(adj) THEN [st EXCEPT !.k = 0]
             ELSE LET p == adj[st.k]
                  IN  With(Remove(st.board.spaces[p[1]][p[2]], st.cur[3]),
                        LAMBDA r :
                          IF r.res = "Err" THEN [st EXCEPT !.ok = FALSE, !.done = TRUE]
                          ELSE IF r.res = "ValueNowKnown"
                               THEN [st EXCEPT !.board.spaces[p[1]][p[2]] = r.cell,
                                               !.board.empty_spaces = @ - 1,
                                               !.queue = Append(@, <<p[1], p[2],
                                                                     r.cell.value>>),
                                               !.k = @ + 1]
                               ELSE [st EXCEPT !.board.spaces[p[1]][p[2]] = r.cell,
                                               !.k = @ + 1])

RECURSIVE CheckRun(_, _)
CheckRun(st, n) ==
    IF st.done THEN st
    ELSE IF n <= 1 THEN CheckStep(st)
    ELSE With(n \div 2,
              LAMBDA h : With(CheckRun(st, h),
                              LAMBDA half : IF half.done THEN half
                                            ELSE With(n - h, LAMBDA rest : CheckRun(half, rest))))

\* Every space is popped at most once more than it becomes known, and a pop
\* takes a step per adjecent space and two more.
Fuel == 82 * 23

CheckResult(st) == [ok |-> st.ok, board |-> st.board]

\* inital_check: [ok, board]; the board is the one left behind, also on Err.
inital_check(b) ==
    With([ok |-> TRUE, done |-> FALSE, board |-> [b EXCEPT !.initalised = TRUE],
          queue |-> KnownPoints(b.spaces), cur |-> <<0, 0, 0>>, k |-> 0],
         LAMBDA st : With(CheckRun(st, Fuel), CheckResult))

FillErr(m, msg) == [m EXCEPT !.ok = FALSE, !.done = TRUE, !.err = msg]

\* The head of fill_space with the space written before the value is looked
\* up in its possible values.
FillEnterWrites(m, point, value) ==
    LET cell == get_space(m.board, point)
    IN  IF cell.known
        THEN IF cell.value # value
             THEN FillErr(m, "Tried to overright in a known value")
             ELSE [m EXCEPT !.acts = Append(@, [point |-> point, value |-> value,
                                                 k |-> 1, new_known |-> 0])]
        ELSE IF Contains(cell.possible, value)
             THEN [m EXCEPT !.board.spaces[point[1]][point[2]] = Known(value),
                            !.board.empty_spaces = @ - 1,
                            !.acts = Append(@, [point |-> point, value |-> value,
                                                k |-> 1, new_known |-> 1])]
             ELSE FillErr([m EXCEPT !.board.spaces[point[1]][point[2]] = Known(value),
                                    !.board.empty_spaces = @ - 1],
                          "Not a possible value")

\* The head of fill_space, before its loop: a new activation of fill_space on
\* top of m.acts, or the Err it returns.
FillEnter(m, point, value) ==
    LET cell == get_space(m.board, point)
    IN  IF cell.known
        THEN IF cell.value # value
             THEN FillErr(m, "Tried to overright in a known value")
             ELSE [m EXCEPT !.acts = Append(@, [point |-> point, value |-> value,
                                                 k |-> 1, new_known |-> 0])]
        ELSE IF Contains(cell.possible, value)
             THEN [m EXCEPT !.board.spaces[point[1]][point[2]] = Known(value),
                            !.board.empty_spaces = @ - 1,
                            !.acts = Append(@, [point |-> point, value |-> value,
                                                k |-> 1, new_known |-> 1])]
             ELSE FillErr(m, "Not a possible value")

\* The return of the topmost activation with Ok(new_known): to the caller of
\* fill_space, or to the activation below, which drops the number returned,
\* counts one new known space and decrements empty_spaces.
FillReturn(m) ==
    LET n == Len(m.acts)
    IN  IF n = 1
        THEN [m EXCEPT !.done = TRUE, !.new_known = m.acts[1].new_known, !.acts = <<>>]
        ELSE [m EXCEPT !.acts = [SubSeq(m.acts, 1, n - 1) EXCEPT
                                    ![n - 1].new_known = @ + 1, ![n - 1].k = @ + 1],
                       !.board.empty_spaces = @ - 1]

\* One step of the topmost activation of fill_space: its next adjecent space.
FillStep(m) ==
    LET n == Len(m.acts)
        a == m.acts[n]
        adj == Adjecent(a.point)
    IN  IF a.k > Len(adj) THEN FillReturn(m)
        ELSE LET p == adj[a.k]
             IN  With(Remove(m.board.spaces[p[1]][p[2]], a.value),
                   LAMBDA r :
                     IF r.res = "Err" THEN FillErr(m, "Sudoku is unsolvable")
                     ELSE IF r.res = "ValueNowKnown"
                          THEN With([m EXCEPT !.board.spaces[p[1]][p[2]] = r.cell],
                                    LAMBDA known : FillEnter(known, p, r.cell.value))
                          ELSE [m EXCEPT !.board.spaces[p[1]][p[2]] = r.cell,
                                         !.acts[n].k = @ + 1])

RECURSIVE FillRun(_, _)
FillRun(m, n) ==
    IF m.done THEN m
    ELSE IF n <= 1 THEN FillStep(m)
    ELSE With(n \div 2,
              LAMBDA h : With(FillRun(m, h),
                              LAMBDA half : IF half.done THEN half
                                            ELSE With(n - h, LAMBDA rest : FillRun(half, rest))))

FillResult(m) ==
    [ok |-> m.ok, board |-> m.board, new_known |-> m.new_known, err |-> m.err]

\* fill_space: [ok, board, new_known, err]; the board is the one left behind,
\* also on Err.
fill_space(b, point, value) ==
    With(FillEnter([board |-> b, acts |-> <<>>, ok |-> TRUE, done |-> FALSE,
                    err |-> "", new_known |-> 0], point, value),
         LAMBDA m : With(FillRun(m, Fuel), FillResult))

NoPoint == [some |-> FALSE, point |-> <<0, 0>>]

RECURSIVE ScanSetFirst(_, _, _, _, _)
\* The scan that keeps the first Unknown space listing the value and does not
\* mind a second one.
ScanSetFirst(spaces, set, value, k, found) ==
    IF k > Len(set) THEN [skip |-> FALSE, found |-> found]
    ELSE LET c == spaces[set[k][1]][set[k][2]]
         IN  IF c.known
             THEN IF c.value = value THEN [skip |-> TRUE, found |-> found]
                  ELSE ScanSetFirst(spaces, set, value, k + 1, found)
             ELSE IF Contains(c.possible, value) /\ ~found.some
                  THEN ScanSetFirst(spaces, set, value, k + 1,
                                    [some |-> TRUE, point |-> set[k]])
                  ELSE ScanSetFirst(spaces, set, value, k + 1, found)

RECURSIVE ScanSet(_, _, _, _, _)
\* The scan of one row, column or box for one value in narrow, from the k-th
\* point on: skip is `continue 'values`, found is unknown_value_to_fill_in.
ScanSet(spaces, set, value, k, found) ==
    IF k > Len(set) THEN [skip |-> FALSE, found |-> found]
    ELSE LET c == spaces[set[k][1]][set[k][2]]
         IN  IF c.known
             THEN IF c.value = value THEN [skip |-> TRUE, found |-> found]
                  ELSE ScanSet(spaces, set, value, k + 1, found)
             ELSE IF Contains(c.possible, value)
                  THEN IF found.some THEN [skip |-> TRUE, found |-> found]
                       ELSE ScanSet(spaces, set, value, k + 1,
                                    [some |-> TRUE, point |-> set[k]])
                  ELSE ScanSet(spaces, set, value, k + 1, found)

\* new_spaces_known += self.fill_space(point, value)?, f being what
\* fill_space returned.
NarrowFilled(st, f) ==
    IF ~f.ok THEN [st EXCEPT !.ok = FALSE, !.board = f.board]
    ELSE [st EXCEPT !.board = f.board, !.new_spaces_known = @ + f.new_known]

\* The match that goes on to the next value when no space can take this one.
NarrowFoundOrNone(st, s, value) ==
    IF s.skip \/ ~s.found.some THEN st
    ELSE With(fill_space(st.board, s.found.point, value),
              LAMBDA f : NarrowFilled(st, f))

\* The match on unknown_value_to_fill_in, s being what the scan found.
NarrowFound(st, s, value) ==
    IF s.skip THEN st
    ELSE IF ~s.found.some THEN [st EXCEPT !.ok = FALSE]
    ELSE With(fill_space(st.board, s.found.point, value),
              LAMBDA f : NarrowFilled(st, f))

\* The body of the 'values loop of narrow for one set of coordinates and one
\* value.  st is [ok, board, new_spaces_known].
NarrowValue(st, set, value) ==
    With(ScanSet(st.board.spaces, set, value, 1, NoPoint),
         LAMBDA s : NarrowFound(st, s, value))

RECURSIVE NarrowRun(_, _, _)
\* The nested loops of narrow, iterations lo..hi: iteration n is value
\* n % 9 + 1 of set n \div 9 + 1; an Err ends the loops.
NarrowRun(st, lo, hi) ==
    IF ~st.ok THEN st
    ELSE IF lo = hi
         THEN NarrowValue(st, get_all_full_corrdinates[(lo \div 9) + 1], (lo % 9) + 1)
    ELSE With((lo + hi) \div 2,
              LAMBDA mid : With(NarrowRun(st, lo, mid),
                                LAMBDA half : IF half.ok THEN NarrowRun(half, mid + 1, hi)
                                              ELSE half))

\* narrow: [ok, board, new_spaces_known].
narrow(b) ==
    NarrowRun([ok |-> TRUE, board |-> b, new_spaces_known |-> 0],
              0, 9 * Len(get_all_full_corrdinates) - 1)

------------------------------------------------------------------------------
(* Guess heuristic *)

\* usize::MAX, the initial number_of_possible_values of best_guess.  Only
\* compared with lengths of at most 9, so the largest TLC integer stands for it.
UsizeMax == 2147483647

Impact(point, guess, n, solved, removed) ==
    [point |-> point, guess |-> guess, number_of_possible_values |-> n,
     spaces_solved |-> solved, possible_values_removed |-> removed]

\* The adjecent spaces that are Unknown and list the value
\* (possible_values_removed_by_guess counts them).
RemovedByGuess(b, point, value) ==
    {k \in 1..Len(Adjecent(point)) :
        LET c == get_space(b, Adjecent(point)[k])
        IN  ~c.known /\ Contains(c.possible, value)}

\* Those of them with exactly two possible values
\* (other_spaces_solved_by_guess counts them).
SolvedByGuess(b, point, value) ==
    {k \in RemovedByGuess(b, point, value) :
        Len(get_space(b, Adjecent(point)[k]).possible) = 2}

\* The comparison chain with ties going to the guess found last.
ConsiderLast(best_guess, new_guess) ==
    IF new_guess.number_of_possible_values < best_guess.number_of_possible_values
    THEN new_guess
    ELSE IF new_guess.spaces_solved > best_guess.spaces_solved THEN new_guess
    ELSE IF new_guess.spaces_solved < best_guess.spaces_solved THEN best_guess
    ELSE IF new_guess.possible_values_removed >= best_guess.possible_values_removed
         THEN new_guess
         ELSE best_guess

\* The comparison chain at the end of the loop body: the best guess afterwards.
Consider(best_guess, new_guess) ==
    IF new_guess.number_of_possible_values < best_guess.number_of_possible_values
    THEN new_guess
    ELSE IF new_guess.spaces_solved > best_guess.spaces_solved THEN new_guess
    ELSE IF new_guess.spaces_solved < best_guess.spaces_solved THEN best_guess
    ELSE IF new_guess.possible_values_removed > best_guess.possible_values_removed
         THEN new_guess
         ELSE best_guess

RECURSIVE GuessValues(_, _, _, _)
\* The loop over the possible values of one Unknown space, from the k-th on.
GuessValues(b, point, k, best_guess) ==
    LET possible_values == get_space(b, point).possible
    IN  IF k > Len(possible_values) THEN best_guess
        ELSE With(Impact(point, possible_values[k], Len(possible_values),
                         Cardinality(SolvedByGuess(b, point, possible_values[k])),
                         Cardinality(RemovedByGuess(b, point, possible_values[k]))),
                  LAMBDA new_guess :
                    With(Consider(best_guess, new_guess),
                         LAMBDA better : GuessValues(b, point, k + 1, better)))

\* The body of the loops over i and j for one space.
GuessSpace(b, point, best_guess) ==
    LET c == get_space(b, point)
    IN  IF c.known \/ Len(c.possible) > best_guess.number_of_possible_values
        THEN best_guess
        ELSE GuessValues(b, point, 1, best_guess)

RECURSIVE GuessRun(_, _, _, _)
\* The loops over i and j, spaces lo..hi of the reading order.
GuessRun(b, best_guess, lo, hi) ==
    IF lo = hi THEN GuessSpace(b, ReadingOrder[lo], best_guess)
    ELSE With((lo + hi) \div 2,
              LAMBDA mid : With(GuessRun(b, best_guess, lo, mid),
                                LAMBDA half : GuessRun(b, half, mid + 1, hi)))

most_impactful_guess(b) ==
    With(GuessRun(b, Impact(<<0, 0>>, 0, UsizeMax, 0, 0), 1, 81),
         LAMBDA best_guess : [point |-> best_guess.point, guess |-> best_guess.guess])

------------------------------------------------------------------------------
(* Inputs: the board files the model is run on *)

\* Grids in reading order, 0 for an empty space.
Easy ==
    <<5, 3, 0, 0, 7, 0, 0, 0, 0,
      6, 0, 0, 1, 9, 5, 0, 0, 0,
      0, 9, 8, 0, 0, 0, 0, 6, 0,
      8, 0, 0, 0, 6, 0, 0, 0, 3,
      4, 0, 0, 8, 0, 3, 0, 0, 1,
      7, 0, 0, 0, 2, 0, 0, 0, 6,
      0, 6, 0, 0, 0, 0, 2, 8, 0,
      0, 0, 0, 4, 1, 9, 0, 0, 5,
      0, 0, 0, 0, 8, 0, 0, 7, 9>>

Sparse ==
    <<0, 0, 0, 0, 0, 0, 0, 1, 0,
      4, 0, 0, 0, 0, 0, 0, 0, 0,
      0, 2, 0, 0, 0, 0, 0, 0, 0,
      0, 0, 0, 0, 5, 0, 4, 0, 7,
      0, 0, 8, 0, 0, 0, 3, 0, 0,
      0, 0, 1, 0, 9, 0, 0, 0, 0,
      3, 0, 0, 4, 0, 0, 2, 0, 0,
      0, 5, 0, 1, 0, 0, 0, 0, 0,
      0, 0, 0, 8, 0, 6, 0, 0, 0>>

Branching ==
    <<0, 0, 2, 7, 5, 0, 0, 0, 0,
      0, 0, 0, 0, 8, 0, 0, 0, 5,
      6, 0, 5, 4, 0, 0, 2, 0, 0,
      1, 5, 0, 0, 3, 7, 0, 0, 0,
      3, 6, 0, 8, 4, 0, 0, 2, 0,
      2, 8, 0, 0, 0, 0, 5, 3, 0,
      5, 2, 0, 0, 0, 4, 0, 0, 0,
      4, 0, 0, 5, 2, 0, 9, 0, 0,
      0, 0, 0, 3, 0, 0, 0, 5, 0>>

Hard ==
    <<8, 1, 0, 0, 0, 0, 0, 0, 0,
      0, 0, 3, 6, 0, 0, 0, 0, 0,
      0, 7, 0, 0, 9, 1, 2, 0, 0,
      0, 5, 0, 0, 0, 7, 0, 0, 0,
      0, 0, 0, 0, 4, 5, 7, 0, 0,
      0, 0, 0, 1, 0, 0, 0, 3, 0,
      0, 0, 1, 0, 0, 0, 0, 6, 8,
      0, 0, 8, 5, 0, 0, 0, 1, 0,
      0, 9, 0, 0, 0, 0, 4, 0, 0>>

Hopeless ==
    <<0, 1, 2, 7, 5, 0, 0, 0, 0,
      0, 0, 0, 0, 8, 0, 0, 0, 0,
      0, 7, 0, 0, 0, 1, 0, 8, 0,
      1, 5, 0, 2, 0, 0, 8, 0, 6,
      3, 6, 9, 0, 0, 0, 0, 0, 1,
      2, 8, 7, 0, 6, 0, 0, 4, 0,
      0, 0, 1, 9, 0, 0, 0, 0, 8,
      0, 3, 0, 5, 0, 6, 9, 0, 7,
      7, 9, 0, 3, 0, 8, 4, 0, 2>>

Clash ==
    <<5, 5, 0, 0, 7, 0, 0, 0, 0,
      6, 0, 0, 1, 9, 5, 0, 0, 0,
      0, 9, 8, 0, 0, 0, 0, 6, 0,
      8, 0, 0, 0, 6, 0, 0, 0, 3,
      4, 0, 0, 8, 0, 3, 0, 0, 1,
      7, 0, 0, 0, 2, 0, 0, 0, 6,
      0, 6, 0, 0, 0, 0, 2, 8, 0,
      0, 0, 0, 4, 1, 9, 0, 0, 5,
      0, 0, 0, 0, 8, 0, 0, 7, 9>>

Full ==
    <<8, 1, 2, 7, 5, 3, 6, 4, 9,
      9, 4, 3, 6, 8, 2, 1, 7, 5,
      6, 7, 5, 4, 9, 1, 2, 8, 3,
      1, 5, 4, 2, 3, 7, 8, 9, 6,
      3, 6, 9, 8, 4, 5, 7, 2, 1,
      2, 8, 7, 1, 6, 9, 5, 3, 4,
      5, 2, 1, 9, 7, 4, 3, 6, 8,
      4, 3, 8, 5, 2, 6, 9, 1, 7,
      7, 9, 6, 3, 1, 8, 4, 5, 2>>

Grids == <<Easy, Sparse, Branching, Hard, Hopeless, Clash, Full>>

\* The placeholder character each grid's file uses for an empty space:
\* '0' (48), 'x' (120) or 'E' (69).
Placeholders == <<48, 120, 69, 48, 120, 48, 48>>

\* The text of a board file: nine lines of nine characters, cells separated
\* by nothing, each line ended by a newline (10), which the parser ignores.
TextOf(g, blank) ==
    [k \in 1..90 |->
        IF k % 10 = 0 THEN 10
        ELSE IF g[k - (k \div 10)] = 0 THEN blank ELSE 48 + g[k - (k \div 10)]]

Texts == {TextOf(Grids[n], Placeholders[n]) : n \in 1..Len(Grids)}

------------------------------------------------------------------------------
(* The state machine: a client that constructs a board and calls solve or  *)
(* the propagators on it, and the activations of solve, one frame per      *)
(* board (the original at the bottom, each guess_board above the board it  *)
(* was cloned from).                                                       *)

VARIABLES text, stack, last, calls, steps, space, answer

vars == <<text, stack, last, calls, steps, space, answer>>

\* The number of calls the client makes on its board.
MaxCalls == 3

\* The number of steps of solve or narrow_full that are followed after one
\* call by the client: a call that needs more is followed that far.
MaxSteps == 65

\* The points and values the client calls fill_space with.
ProbePoints == {<<0, 0>>, <<0, 5>>, <<4, 4>>}

ProbeValues == {5, 8}

\* entry is the board as it was when solve was last called on it; failed
\* tells that a call on the board, or on the board it was cloned from, has
\* returned Err or false.
Frame(b, pc) ==
    [board |-> b, pc |-> pc, op |-> "none", point |-> <<0, 0>>, guess_value |-> 0,
     ret |-> FALSE, failed |-> FALSE, entry |-> b]

\* What the last call did: the operation, the index of the frame whose board
\* it ran on, that board before and after the call, the arguments and the
\* result (ok is Result::Ok, count the number returned, res the
\* SudokuValueResult or the error message).
Call(op, depth, pre, post, point, value, ok, count, res) ==
    [op |-> op, depth |-> depth, pre |-> pre, post |-> post, point |-> point,
     value |-> value, ok |-> ok, count |-> count, res |-> res]

\* What the last call on a single space or on the geometry returned.
Answer(op, point, value, before, res, spaces) ==
    [op |-> op, point |-> point, value |-> value, before |-> before, res |-> res,
     spaces |-> spaces]

NoAnswer == Answer("none", <<0, 0>>, 0, Unknown(AllDigits), "", <<>>)

Depth == Len(stack)

Top == stack[Len(stack)]

Init ==
    /\ text \in Texts
    /\ New(text).ok
    /\ stack = <<Frame(New(text).board, "idle")>>
    /\ last = Call("new", 1, New(text).board, New(text).board, <<0, 0>>, 0, TRUE, 0, "")
    /\ calls = 0
    /\ steps = 0
    /\ space = Unknown(AllDigits)
    /\ answer = NoAnswer

\* One more step of the running call is followed.
Stepped == steps < MaxSteps /\ steps' = steps + 1

\* solve returns: the frame keeps its board and the returned boolean.
Return(f, b, ret) ==
    [f EXCEPT !.board = b, !.pc = "return", !.ret = ret, !.failed = @ \/ ~ret]

\* The client's board is at rest: no call is running on it.
AtRest == Depth = 1 /\ Top.pc \in {"idle", "return"}

\* The client calls solve: on the board it constructed, or after other
\* calls, solve included.
CallSolve ==
    /\ AtRest /\ calls < MaxCalls
    /\ stack' = <<[Top EXCEPT !.pc = "start", !.op = "solve", !.entry = Top.board]>>
    /\ calls' = calls + 1
    /\ steps' = 0
    /\ UNCHANGED <<text, last, space, answer>>

\* The client's board after a call that returned r.
Rested(f, b, ok) ==
    [f EXCEPT !.board = b, !.pc = "idle", !.op = "none", !.failed = @ \/ ~ok]

InitalCheckCalled(r) ==
    /\ stack' = <<Rested(Top, r.board, r.ok)>>
    /\ last' = Call("inital_check", 1, Top.board, r.board, <<0, 0>>, 0, r.ok, 0, "")

\* The client calls inital_check.
CallInitalCheck ==
    /\ AtRest /\ calls < MaxCalls
    /\ \E r \in {inital_check(Top.board)} : InitalCheckCalled(r)
    /\ calls' = calls + 1
    /\ steps' = 0
    /\ UNCHANGED <<text, space, answer>>

FillSpaceCalled(point, value, r) ==
    /\ stack' = <<Rested(Top, r.board, r.ok)>>
    /\ last' = Call("fill_space", 1, Top.board, r.board, point, value, r.ok,
                    r.new_known, r.err)

\* The client calls fill_space.
CallFillSpace(point, value) ==
    /\ AtRest /\ calls < MaxCalls
    /\ \E r \in {fill_space(Top.board, point, value)} : FillSpaceCalled(point, value, r)
    /\ calls' = calls + 1
    /\ steps' = 0
    /\ UNCHANGED <<text, space, answer>>

NarrowCalled(r) ==
    /\ stack' = <<Rested(Top, r.board, r.ok)>>
    /\ last' = Call("narrow", 1, Top.board, r.board, <<0, 0>>, 0, r.ok,
                    r.new_spaces_known, "")

\* The client calls narrow.
CallNarrow ==
    /\ AtRest /\ calls < MaxCalls
    /\ \E r \in {narrow(Top.board)} : NarrowCalled(r)
    /\ calls' = calls + 1
    /\ steps' = 0
    /\ UNCHANGED <<text, space, answer>>

\* The client calls narrow_full; NarrowStep runs its loop.
CallNarrowFull ==
    /\ AtRest /\ calls < MaxCalls
    /\ stack' = <<[Top EXCEPT !.pc = "narrow", !.op = "narrow_full"]>>
    /\ calls' = calls + 1
    /\ steps' = 0
    /\ UNCHANGED <<text, last, space, answer>>

GuessCalled(g) ==
    last' = Call("most_impactful_guess", 1, Top.board, Top.board, g.point, g.guess,
                 TRUE, 0, "")

\* The client calls most_impactful_guess; the board is only read.
CallMostImpactfulGuess ==
    /\ AtRest /\ calls < MaxCalls
    /\ \E g \in {most_impactful_guess(Top.board)} : GuessCalled(g)
    /\ calls' = calls + 1
    /\ steps' = 0
    /\ UNCHANGED <<text, stack, space, answer>>

\* The frame after the is_solved test that follows a propagation step which
\* left the board b: solve returns, or goes on at pc.
Solving(f, b, ok, pc) ==
    IF ~ok THEN Return(f, b, FALSE)
    ELSE IF is_solved(b) THEN Return(f, b, TRUE)
    ELSE [f EXCEPT !.board = b, !.pc = pc]

Entered(r) ==
    /\ stack' = [stack EXCEPT ![Depth] = Solving(Top, r.board, r.ok, "narrow")]
    /\ last' = Call("inital_check", Depth, Top.board, r.board, <<0, 0>>, 0, r.ok, 0, "")

\* solve, up to the first is_solved test: inital_check unless already run.
SolveEnter ==
    /\ Top.pc = "start"
    /\ IF Top.board.initalised
       THEN /\ stack' = [stack EXCEPT ![Depth] = Solving(Top, Top.board, TRUE, "narrow")]
            /\ last' = last
       ELSE \E r \in {inital_check(Top.board)} : Entered(r)
    /\ Stepped
    /\ UNCHANGED <<text, calls, space, answer>>

\* The loop of narrow_full left after one call of narrow.
AgainNever(r) == FALSE

\* The loop condition of narrow_full after a call of narrow that returned r.
Again(r) == r.ok /\ r.new_spaces_known > 0 /\ ~is_solved(r.board)

Narrowed(r) ==
    /\ stack' = [stack EXCEPT ![Depth] =
          IF Again(r) THEN [Top EXCEPT !.board = r.board]
          ELSE IF Top.op = "narrow_full"
               THEN [Rested(Top, r.board, r.ok) EXCEPT !.ret = r.ok /\ is_solved(r.board)]
               ELSE Solving(Top, r.board, r.ok, "guess")]
    /\ last' = Call("narrow", Depth, Top.board, r.board, <<0, 0>>, 0, r.ok,
                    r.new_spaces_known, "")

\* One call of narrow in the loop of narrow_full, and what follows when
\* narrow_full returns: to the client, or in solve the is_solved test.
NarrowStep ==
    /\ Top.pc = "narrow"
    /\ \E r \in {narrow(Top.board)} : Narrowed(r)
    /\ Stepped
    /\ UNCHANGED <<text, calls, space, answer>>

Guessed(g) ==
    /\ stack' = [stack EXCEPT ![Depth] =
          [Top EXCEPT !.pc = "clone", !.point = g.point, !.guess_value = g.guess]]
    /\ last' = Call("most_impactful_guess", Depth, Top.board, Top.board, g.point,
                    g.guess, TRUE, 0, "")

\* The head of the loop of solve: the guess.
Guess ==
    /\ Top.pc = "guess"
    /\ \E g \in {most_impactful_guess(Top.board)} : Guessed(g)
    /\ Stepped
    /\ UNCHANGED <<text, calls, space, answer>>

\* fill_space of the guess on this board itself instead of on a clone.
SpeculatedInPlace(r) ==
    /\ stack' = Append([stack EXCEPT ![Depth] = [Top EXCEPT !.pc = "wait", !.board = r.board]],
                       [Frame(r.board, IF r.ok THEN "start" ELSE "fill_failed")
                          EXCEPT !.op = "solve", !.failed = Top.failed \/ ~r.ok])
    /\ last' = Call("fill_space", Depth + 1, Top.board, r.board, Top.point,
                    Top.guess_value, r.ok, r.new_known, r.err)

Speculated(r) ==
    /\ stack' = Append([stack EXCEPT ![Depth] = [Top EXCEPT !.pc = "wait"]],
                       [Frame(r.board, IF r.ok THEN "start" ELSE "fill_failed")
                          EXCEPT !.op = "solve", !.failed = Top.failed \/ ~r.ok])
    /\ last' = Call("fill_space", Depth + 1, Top.board, r.board, Top.point,
                    Top.guess_value, r.ok, r.new_known, r.err)

\* guess_board = self.clone(), and fill_space of the guess on it; solve is
\* called on the guess_board only when fill_space is Ok.
Speculate ==
    /\ Top.pc = "clone"
    /\ \E r \in {fill_space(Top.board, Top.point, Top.guess_value)} : Speculated(r)
    /\ Stepped
    /\ UNCHANGED <<text, calls, space, answer>>

\* The guess_board was solved: *self = guess_board; return true.
BranchSolved ==
    /\ Depth > 1 /\ Top.pc = "return" /\ Top.ret
    /\ stack' = [SubSeq(stack, 1, Depth - 1) EXCEPT ![Depth - 1] =
                   Return(stack[Depth - 1], Top.board, TRUE)]
    /\ Stepped
    /\ UNCHANGED <<text, last, calls, space, answer>>

\* The board when the result of remove is dropped: the guess stays listed.
GuessKept(f, r) == f.board

\* The board of frame f once remove on the guessed space returned r:
\* empty_spaces is decremented when the space is now known.
GuessRemoved(f, r) ==
    [f.board EXCEPT !.spaces[f.point[1]][f.point[2]] = r.cell,
                    !.empty_spaces = IF r.res = "ValueNowKnown" THEN @ - 1 ELSE @]

Backtracked(f, r) ==
    /\ stack' = [SubSeq(stack, 1, Depth - 1) EXCEPT ![Depth - 1] =
          IF r.res = "Err" THEN Return(f, GuessRemoved(f, r), FALSE)
          ELSE IF r.res = "ValueNowKnown"
               THEN [f EXCEPT !.board = GuessRemoved(f, r), !.pc = "forced"]
               ELSE [f EXCEPT !.board = GuessRemoved(f, r), !.pc = "guess"]]
    /\ last' = Call("remove", Depth - 1, f.board, GuessRemoved(f, r), f.point,
                    f.guess_value, r.res # "Err", 0, r.res)

\* The guess was wrong: the guess_board is dropped and the guess removed from
\* the space of this board.
BranchFailed ==
    /\ Depth > 1
    /\ Top.pc = "fill_failed" \/ (Top.pc = "return" /\ ~Top.ret)
    /\ \E r \in {Remove(get_space(stack[Depth - 1].board, stack[Depth - 1].point),
                        stack[Depth - 1].guess_value)} :
          Backtracked(stack[Depth - 1], r)
    /\ Stepped
    /\ UNCHANGED <<text, calls, space, answer>>

Forced(value, r) ==
    /\ stack' = [stack EXCEPT ![Depth] = Solving(Top, r.board, r.ok, "narrow")]
    /\ last' = Call("fill_space", Depth, Top.board, r.board, Top.point, value, r.ok,
                    r.new_known, r.err)

\* The guessed space is now known: fill_space of its value on this board, then
\* the is_solved test; narrow_full follows.
ForcedFill ==
    /\ Top.pc = "forced"
    /\ \E r \in {fill_space(Top.board, Top.point, get_space(Top.board, Top.point).value)} :
          Forced(get_space(Top.board, Top.point).value, r)
    /\ Stepped
    /\ UNCHANGED <<text, calls, space, answer>>

\* The steps of a running solve or narrow_full.
SolveStep ==
    \/ SolveEnter
    \/ NarrowStep
    \/ Guess
    \/ Speculate
    \/ BranchSolved
    \/ BranchFailed
    \/ ForcedFill

Next ==
    \/ CallSolve
    \/ CallInitalCheck
    \/ \E point \in ProbePoints, value \in ProbeValues : CallFillSpace(point, value)
    \/ CallNarrow
    \/ CallNarrowFull
    \/ CallMostImpactfulGuess
    \/ SolveStep

Spec == Init /\ [][Next]_vars

\* A call of solve is running, on the client's board or on a guess_board, and
\* its next step is followed.
Running == Top.op = "solve" /\ ~AtRest /\ steps < MaxSteps

\* A step of a running solve: the steps of SolveStep are the only ones of Next
\* that count a step while a call is running.
SolveRuns == Running /\ Stepped

\* solve runs to its end without waiting for anything: while it is running
\* its next step is taken.
FairSpec == Spec /\ WF_steps(SolveRuns)

------------------------------------------------------------------------------
(* A single space, and the geometry, called on their own *)

\* The characters a single space is made from: '0', 'a' and '1'..'9'.
SpaceChars == {48, 97} \cup (49..57)

SpaceInit ==
    /\ \E c \in SpaceChars : space = From(c).cell
    /\ answer = NoAnswer
    /\ text = <<>>
    /\ stack = <<>>
    /\ last = Call("none", 0, <<>>, <<>>, <<0, 0>>, 0, TRUE, 0, "")
    /\ calls = 0
    /\ steps = 0

\* remove is called on the space.
RemoveValue(value) ==
    /\ space' = Remove(space, value).cell
    /\ answer' = Answer("remove", <<0, 0>>, value, space, Remove(space, value).res,
                        <<>>)
    /\ UNCHANGED <<text, stack, last, calls, steps>>

SpaceNext == \E value \in Digits : RemoveValue(value)

SpaceSpec == SpaceInit /\ [][SpaceNext]_vars

GeometryInit ==
    /\ space = Unknown(AllDigits)
    /\ answer = NoAnswer
    /\ text = <<>>
    /\ stack = <<>>
    /\ last = Call("none", 0, <<>>, <<>>, <<0, 0>>, 0, TRUE, 0, "")
    /\ calls = 0
    /\ steps = 0

\* get_adjecent_spaces is called on a point.
AdjecentSpaces(point) ==
    /\ answer' = Answer("get_adjecent_spaces", point, 0, space, "",
                        get_adjecent_spaces(point))
    /\ UNCHANGED <<text, stack, last, calls, steps, space>>

\* get_all_full_corrdinates is called, and its u-th set looked at.
FullCorrdinates(u) ==
    /\ answer' = Answer("get_all_full_corrdinates", <<0, 0>>, u, space, "",
                        get_all_full_corrdinates[u])
    /\ UNCHANGED <<text, stack, last, calls, steps, space>>

GeometryNext ==
    \/ \E point \in Points : AdjecentSpaces(point)
    \/ \E u \in 1..Len(get_all_full_corrdinates) : FullCorrdinates(u)

GeometrySpec == GeometryInit /\ [][GeometryNext]_vars

------------------------------------------------------------------------------
(* Properties.  The units and the notion of a valid grid are stated here    *)
(* from the rules of sudoku, not from the operators above.                  *)

Rows == {{<<x, y>> : y \in Idx} : x \in Idx}

Columns == {{<<x, y>> : x \in Idx} : y \in Idx}

Boxes == {{p \in Points : p[1] \div 3 = bx /\ p[2] \div 3 = by} : bx \in 0..2, by \in 0..2}

Units == Rows \cup Columns \cup Boxes

\* The spaces of the board as constructed from the text.
Given == New(text).board.spaces

\* The points of a unit whose space is Known with digit d.
Holders(spaces, u, d) ==
    {p \in u : spaces[p[1]][p[2]].known /\ spaces[p[1]][p[2]].value = d}

AllKnown(spaces) == \A p \in Points : spaces[p[1]][p[2]].known

EachDigitOnce(spaces) ==
    \A u \in Units : \A d \in Digits : Cardinality(Holders(spaces, u, d)) = 1

\* Every space that is Known in given is the same in spaces.
Keeps(given, spaces) ==
    \A p \in Points : given[p[1]][p[2]].known => spaces[p[1]][p[2]] = given[p[1]][p[2]]

GivensKept(spaces) == Keeps(Given, spaces)

UnknownCount(b) == Cardinality({p \in Points : ~b.spaces[p[1]][p[2]].known})

\* The sum of the numbers of possible values over the Unknown spaces.
RECURSIVE SumLen(_, _, _)
SumLen(spaces, lo, hi) ==
    IF lo = hi THEN Len(spaces[(lo - 1) \div 9][(lo - 1) % 9].possible)
    ELSE SumLen(spaces, lo, (lo + hi) \div 2) + SumLen(spaces, ((lo + hi) \div 2) + 1, hi)

CandidateSum(b) == SumLen(b.spaces, 1, 81)

\* The client's call of solve has returned ret and nothing was called since.
SolveReturned(ret) ==
    Depth = 1 /\ Top.pc = "return" /\ Top.op = "solve" /\ Top.ret = ret

\* C1.  Soundness of solve: whenever an activation of solve has returned
\* true (the client's, or one on a guess_board), every space of its board is
\* Known, is_solved holds, every row, column and box holds each digit exactly
\* once, and every space that was Known in the input holds its input digit.
C1_SolveSound ==
    \A n \in 1..Depth :
        (stack[n].op = "solve" /\ stack[n].pc = "return" /\ stack[n].ret)
        => /\ AllKnown(stack[n].board.spaces)
           /\ is_solved(stack[n].board)
           /\ EachDigitOnce(stack[n].board.spaces)
           /\ GivensKept(stack[n].board.spaces)

\* solve returned true to the client on a board that had empty spaces, after
\* adopting a guess_board.
C1_Witness ==
    /\ SolveReturned(TRUE)
    /\ New(text).board.empty_spaces > 0
    /\ Top.guess_value # 0

\* The solved grids of the inputs that have one.
EasySolved ==
    <<5, 3, 4, 6, 7, 8, 9, 1, 2,
      6, 7, 2, 1, 9, 5, 3, 4, 8,
      1, 9, 8, 3, 4, 2, 5, 6, 7,
      8, 5, 9, 7, 6, 1, 4, 2, 3,
      4, 2, 6, 8, 5, 3, 7, 9, 1,
      7, 1, 3, 9, 2, 4, 8, 5, 6,
      9, 6, 1, 5, 3, 7, 2, 8, 4,
      2, 8, 7, 4, 1, 9, 6, 3, 5,
      3, 4, 5, 2, 8, 6, 1, 7, 9>>

SparseSolved ==
    <<6, 9, 3, 7, 8, 4, 5, 1, 2,
      4, 8, 7, 5, 1, 2, 9, 3, 6,
      1, 2, 5, 9, 6, 3, 8, 7, 4,
      9, 3, 2, 6, 5, 1, 4, 8, 7,
      5, 6, 8, 2, 4, 7, 3, 9, 1,
      7, 4, 1, 3, 9, 8, 6, 2, 5,
      3, 1, 9, 4, 7, 5, 2, 6, 8,
      8, 5, 6, 1, 2, 9, 7, 4, 3,
      2, 7, 4, 8, 3, 6, 1, 5, 9>>

KnownGrids == {EasySolved, SparseSolved, Full}

\* The index in a grid (a sequence of 81 digits) of a point.
At(p) == p[1] * 9 + p[2] + 1

\* The spaces as a grid: the digit where the space is Known, else 0.
GridOf(spaces) ==
    [k \in 1..81 |-> IF spaces[(k - 1) \div 9][(k - 1) % 9].known
                     THEN spaces[(k - 1) \div 9][(k - 1) % 9].value ELSE 0]

GivenGrid == GridOf(Given)

\* The points that share a unit with the k-th cell of a grid.
Peers(k) ==
    {At(p) : p \in {q \in Points : \E u \in Units : q \in u /\ ReadingOrder[k] \in u}}
        \ {k}

PeersTable == [k \in 1..81 |-> Peers(k)]

\* A full grid that obeys the rules and agrees with g where g has a digit.
Completes(s, g) ==
    /\ \A k \in 1..81 : s[k] \in Digits /\ (g[k] # 0 => s[k] = g[k])
    /\ \A k \in 1..81 : \A m \in PeersTable[k] : s[k] # s[m]

\* No two digits of g clash.
Consistent(g) ==
    \A k \in 1..81 : g[k] # 0 => \A m \in PeersTable[k] : g[m] # g[k]

\* The empty cells of a grid.
Empties(g) == {k \in 1..81 : g[k] = 0}

\* The digits each cell of the consistent grid g can take: its digit, or the
\* digits none of its peers has.
RECURSIVE Open(_, _, _)
Open(g, lo, hi) ==
    IF lo = hi
    THEN <<IF g[lo] # 0 THEN {g[lo]}
           ELSE {d \in Digits : \A m \in PeersTable[lo] : g[m] # d}>>
    ELSE Open(g, lo, (lo + hi) \div 2) \o Open(g, ((lo + hi) \div 2) + 1, hi)

\* The digits left to cells lo..hi once cell k takes digit d: k has d, and
\* its peers lose it.
RECURSIVE Struck(_, _, _, _, _)
Struck(open, k, d, lo, hi) ==
    IF lo = hi
    THEN <<IF lo = k THEN {d}
           ELSE IF lo \in PeersTable[k] THEN open[lo] \ {d} ELSE open[lo]>>
    ELSE Struck(open, k, d, lo, (lo + hi) \div 2)
            \o Struck(open, k, d, ((lo + hi) \div 2) + 1, hi)

\* An empty cell with the fewest digits left.
Tightest(open, todo) ==
    LET n == CHOOSE n \in 0..9 :
                 /\ \E k \in todo : Cardinality(open[k]) = n
                 /\ \A j \in 0..(n - 1) : \A k \in todo : Cardinality(open[k]) # j
    IN  CHOOSE k \in todo : Cardinality(open[k]) = n

RECURSIVE Extend(_, _)
\* Exhaustive search: the empty cells todo can all be given one of the
\* digits left to them, each digit given being struck from the peers.
Extend(open, todo) ==
    IF todo = {} THEN TRUE
    ELSE LET k == Tightest(open, todo)
         IN  \E d \in open[k] : Extend(Struck(open, k, d, 1, 81), todo \ {k})

\* Some assignment of digits to the empty cells of g gives a valid grid.
Completable(g) ==
    \/ \E s \in KnownGrids : Completes(s, g)
    \/ Consistent(g) /\ Extend(Open(g, 1, 81), Empties(g))

\* C2.  Completeness of solve: when the client's call of solve, on the
\* board it constructed or after other calls, returns false, no assignment
\* of digits to the empty spaces extends the digits the board held when
\* solve was called to a valid grid.
C2_SolveComplete == SolveReturned(FALSE) => ~Completable(GridOf(Top.entry.spaces))

\* solve returned false to the client after guessing: every guess on some
\* space failed.
C2_Witness == SolveReturned(FALSE) /\ Top.guess_value # 0

\* The board of every activation that stays on the stack keeps or loses
\* possible values, and never gains one.
NeverGains ==
    \A n \in 1..Depth :
        n <= Len(stack') => CandidateSum(stack'[n].board) <= CandidateSum(stack[n].board)

\* The iteration of the loop of solve whose guess failed removes the guess:
\* the sum of the numbers of possible values of the board gets smaller.
FailedGuessShrinks ==
    BranchFailed =>
        CandidateSum(stack'[Depth - 1].board) < CandidateSum(stack[Depth - 1].board)

\* A guess_board on which fill_space returned Ok has fewer possible values
\* than the board it was cloned from: the guessed space is Known on it.
GuessBoardSmaller ==
    (Top.pc = "clone" /\ Len(stack') = Depth + 1 /\ stack'[Depth + 1].pc = "start")
    => CandidateSum(stack'[Depth + 1].board) < CandidateSum(Top.board)

\* The client's call of solve is running and has not returned.
SolveCalled == Depth = 1 /\ Top.op = "solve" /\ Top.pc = "start"

\* The call of solve is one that is followed to its return: the first call
\* on the board, or a later one with steps left.
Followed == calls = 1 \/ steps < MaxSteps

\* C3.  Termination of solve: a running solve always has a next step to take;
\* the client's call of solve on the board it constructed returns (true or
\* false), and so does, as far as its steps are followed, every later call;
\* and in the loop of solve an iteration whose
\* guess_board fails strictly decreases the sum of the numbers of possible
\* values over the Unknown spaces of the board, no step of solve ever
\* increasing it and every guess_board starting below its original.
C3_SolveTerminates ==
    /\ [](Running => ENABLED SolveStep)
    /\ SolveCalled ~> (SolveReturned(TRUE) \/ SolveReturned(FALSE) \/ ~Followed)
    /\ [][FailedGuessShrinks /\ NeverGains /\ GuessBoardSmaller]_vars

\* A guess has failed and was removed from the board it was made on, which
\* lost possible values by it.
C3_Witness ==
    /\ last.op = "remove" /\ last.ok
    /\ CandidateSum(last.post) < CandidateSum(last.pre)
    /\ Top.pc \in {"guess", "forced"}

\* C4.  empty_spaces invariant: on every board, the original and every
\* guess_board, after construction and after every return of inital_check,
\* fill_space, narrow, narrow_full and solve, with Ok or with Err,
\* empty_spaces is the number of Unknown spaces.
C4_EmptyCount ==
    \A n \in 1..Depth : stack[n].board.empty_spaces = UnknownCount(stack[n].board)

\* No unit has two Known spaces with the same digit.
AtMostOnce(spaces) ==
    \A u \in Units : \A d \in Digits : Cardinality(Holders(spaces, u, d)) <= 1

\* C5, as stated.  Unit uniqueness: in every state of every board, after
\* construction and after any calls of inital_check, fill_space, narrow,
\* narrow_full and solve, every unit has at most one Known space per digit.
C5_UnitUnique == \A n \in 1..Depth : AtMostOnce(stack[n].board.spaces)

\* C5, amended.  Unit uniqueness holds on every board on which no operation
\* has reported a failure (an Err, or false from solve) and which either has
\* been through inital_check or was constructed from digits that do not clash.
C5_UnitUniqueUnlessFailed ==
    \A n \in 1..Depth :
        (~stack[n].failed /\ (stack[n].board.initalised \/ Consistent(GivenGrid)))
        => AtMostOnce(stack[n].board.spaces)

\* A board that has been through inital_check and on which nothing has failed
\* holds more digits than were given.
C5_Witness ==
    /\ ~Top.failed /\ Top.board.initalised
    /\ UnknownCount(Top.board) < New(text).board.empty_spaces

\* The values of a sequence.
Range(s) == {s[k] : k \in 1..Len(s)}

\* C6.  Outcome of remove(v), for every space and digit v: on Known(v) it is
\* Err; on Known(x), x # v, it is PossibleValueAlreadyRemoved and the space
\* is unchanged; on Unknown(S) without v it is PossibleValueAlreadyRemoved and
\* S is unchanged; on Unknown(S) with v and two values the space becomes
\* Known(w), w the other value, and it is ValueNowKnown; on Unknown(S) with v
\* and more than two values it is PossibleValueRemoved and the new values are
\* exactly those of S but v.
C6_RemoveOutcome ==
    answer.op = "remove" =>
        IF answer.before.known
        THEN IF answer.before.value = answer.value
             THEN answer.res = "Err"
             ELSE answer.res = "PossibleValueAlreadyRemoved" /\ space = answer.before
        ELSE IF answer.value \notin Range(answer.before.possible)
             THEN answer.res = "PossibleValueAlreadyRemoved" /\ space = answer.before
        ELSE IF Len(answer.before.possible) = 2
             THEN /\ answer.res = "ValueNowKnown"
                  /\ space.known
                  /\ Range(answer.before.possible) = {answer.value, space.value}
                  /\ space.value # answer.value
        ELSE IF Len(answer.before.possible) > 2
             THEN /\ answer.res = "PossibleValueRemoved"
                  /\ ~space.known
                  /\ Range(space.possible) = Range(answer.before.possible) \ {answer.value}
                  /\ Len(space.possible) = Len(answer.before.possible) - 1
        ELSE TRUE

\* remove took the last but one possible value: the space is now Known.
C6_Witness ==
    /\ answer.op = "remove" /\ answer.res = "ValueNowKnown"
    /\ ~answer.before.known /\ space.known

\* The points other than p that share a row, a column or a box with p.
Sharing(p) == {q \in Points : q # p /\ \E u \in Units : p \in u /\ q \in u}

\* C7.  Geometry of get_adjecent_spaces: for every point p it returns exactly
\* 20 pairwise distinct points, none of them p, and they are exactly the
\* points other than p in the row, the column or the box of p; for p = (0, 0)
\* they include (8, 0) and (0, 8) and not (4, 4).
C7_AdjecentGeometry ==
    answer.op = "get_adjecent_spaces" =>
        /\ Len(answer.spaces) = 20
        /\ \A i, j \in 1..Len(answer.spaces) : i # j => answer.spaces[i] # answer.spaces[j]
        /\ answer.point \notin Range(answer.spaces)
        /\ Range(answer.spaces) = Sharing(answer.point)
        /\ answer.point = <<0, 0>> =>
              /\ <<8, 0>> \in Range(answer.spaces)
              /\ <<0, 8>> \in Range(answer.spaces)
              /\ <<4, 4>> \notin Range(answer.spaces)

\* get_adjecent_spaces has answered for a point in the middle box.
C7_Witness ==
    /\ answer.op = "get_adjecent_spaces" /\ answer.point = <<4, 5>>
    /\ Len(answer.spaces) = 20

\* The Unknown spaces of a unit that list digit d.
Listing(spaces, u, d) ==
    {p \in u : ~spaces[p[1]][p[2]].known /\ d \in Range(spaces[p[1]][p[2]].possible)}

\* No unit has a digit that no Known space of it holds and exactly one of its
\* Unknown spaces lists.
NoSingles(spaces) ==
    \A u \in Units : \A d \in Digits :
        ~(Holders(spaces, u, d) = {} /\ Cardinality(Listing(spaces, u, d)) = 1)

\* Some unit has a digit that none of its spaces holds or lists.
DeadUnit(spaces) ==
    \E u \in Units : \E d \in Digits :
        Holders(spaces, u, d) = {} /\ Listing(spaces, u, d) = {}

\* The step is a call of narrow right after a call of narrow on the same
\* board that returned Ok(0).
SecondNarrow ==
    /\ last.op = "narrow" /\ last.ok /\ last.count = 0
    /\ Top.board = last.post
    /\ CallNarrow

\* C8, as stated.  Idempotence of narrow: on a board with no unit and digit
\* that exactly one Unknown space lists while no Known space holds it, narrow
\* returns 0 and changes no space and not empty_spaces.
C8_NarrowIdempotent ==
    (last.op = "narrow" /\ NoSingles(last.pre.spaces))
    => (last.ok /\ last.count = 0 /\ last.post = last.pre)

\* C8, amended.  On such a board narrow changes nothing, and it returns 0
\* unless some unit has a digit that none of its spaces holds or lists, in
\* which case it returns Err; and a second narrow right after a narrow that
\* returned 0 returns 0 and changes nothing.
C8_NarrowFixpoint ==
    /\ []((last.op = "narrow" /\ NoSingles(last.pre.spaces))
          => /\ last.post = last.pre
             /\ last.ok <=> ~DeadUnit(last.pre.spaces)
             /\ last.ok => last.count = 0)
    /\ [][SecondNarrow => (last'.ok /\ last'.count = 0 /\ last'.post = last'.pre)]_vars

\* narrow has returned 0 on a board that has been through inital_check, has
\* Unknown spaces left and no single place for any digit.
C8_Witness ==
    /\ last.op = "narrow" /\ last.ok /\ last.count = 0
    /\ last.pre.initalised /\ UnknownCount(last.pre) > 0
    /\ NoSingles(last.pre.spaces)

\* C9, as stated.  Return value of fill_space: whenever fill_space returns
\* Ok(n), n is the number of spaces that went from Unknown to Known during
\* the call, the assigned space and the spaces of the cascade at every depth
\* included, which is empty_spaces before the call minus empty_spaces after.
C9_FillSpaceCount ==
    (last.op = "fill_space" /\ last.ok)
    => /\ last.count = UnknownCount(last.pre) - UnknownCount(last.post)
       /\ last.count = last.pre.empty_spaces - last.post.empty_spaces

\* The Unknown spaces of a board.
UnknownSpaces(b) == {p \in Points : ~b.spaces[p[1]][p[2]].known}

\* The Unknown spaces with the fewest possible values.
Narrowest(b) ==
    LET unknown == UnknownSpaces(b)
    IN  {p \in unknown :
            \A q \in unknown :
                Len(b.spaces[p[1]][p[2]].possible) <= Len(b.spaces[q[1]][q[2]].possible)}

\* The guesses at the narrowest spaces: a space and the position of a value
\* in its list of possible values.
Guesses(b) ==
    UNION {{<<p, k>> : k \in 1..Len(b.spaces[p[1]][p[2]].possible)} : p \in Narrowest(b)}

SharingTable == [p \in Points |-> Sharing(p)]

ValueOf(b, pk) == b.spaces[pk[1][1]][pk[1][2]].possible[pk[2]]

\* The Unknown spaces sharing a unit with the space of the guess that list
\* its value.
Losing(b, pk) ==
    LET d == ValueOf(b, pk)
    IN  {q \in SharingTable[pk[1]] :
            ~b.spaces[q[1]][q[2]].known /\ d \in Range(b.spaces[q[1]][q[2]].possible)}

\* The keys of a guess: the number of those spaces that have exactly two
\* possible values, then the number of all of them.
Keys(b, pk) ==
    LET losing == Losing(b, pk)
    IN  <<Cardinality({q \in losing : Len(b.spaces[q[1]][q[2]].possible) = 2}),
          Cardinality(losing)>>

\* Key a is below key b.
Below(a, b) == a[1] < b[1] \/ (a[1] = b[1] /\ a[2] < b[2])

\* Guess a is scanned before guess b: rows, then columns, then the list.
Before(a, b) ==
    \/ a[1][1] < b[1][1]
    \/ a[1][1] = b[1][1] /\ a[1][2] < b[1][2]
    \/ a[1] = b[1] /\ a[2] < b[2]

\* The guess is the best one of the board, the first one of the best.
Selected(b, pk) ==
    LET guesses == Guesses(b)
        keys    == Keys(b, pk)
    IN  /\ pk \in guesses
        /\ \A other \in guesses \ {pk} :
              LET rival == Keys(b, other)
              IN  Below(rival, keys) \/ (rival = keys /\ Before(pk, other))

\* The returned guess as a space and a position in its list.
Returned(c) == <<c.point, Position(c.pre.spaces[c.point[1]][c.point[2]].possible, c.value)>>

\* C10.  Guess selection: on a board with an Unknown space,
\* most_impactful_guess returns a space with the fewest possible values
\* among the Unknown spaces and one of its possible values, such that among
\* all such pairs it has the most adjecent Unknown spaces listing the value
\* with exactly two possible values, then the most adjecent Unknown spaces
\* listing the value, and is the first in scan order of the pairs tied on
\* all of these.
C10_GuessSelection ==
    (last.op = "most_impactful_guess" /\ UnknownSpaces(last.pre) # {})
    => /\ last.point \in Narrowest(last.pre)
       /\ Contains(last.pre.spaces[last.point[1]][last.point[2]].possible, last.value)
       /\ Selected(last.pre, Returned(last))

\* A guess was returned on a board where another guess at a narrowest space
\* ties with it on both keys and comes later, a guess scanned before it has
\* lower keys, and some Unknown space is not among the narrowest.
C10_Witness ==
    /\ last.op = "most_impactful_guess"
    /\ UnknownSpaces(last.pre) # Narrowest(last.pre)
    /\ Selected(last.pre, Returned(last))
    /\ \E other \in Guesses(last.pre) \ {Returned(last)} :
          Keys(last.pre, other) = Keys(last.pre, Returned(last))
    /\ \E other \in Guesses(last.pre) :
          /\ Before(other, Returned(last))
          /\ Below(Keys(last.pre, other), Keys(last.pre, Returned(last)))

\* Frames 1..n keep their boards in the step.
BoardsKept(n) == \A i \in 1..n : stack'[i].board = stack[i].board

\* The board after is the board before with value v taken from the possible
\* values of the space at point p, Known when one value is left, and nothing
\* else changed but empty_spaces, one less when the space is now Known.
OnlyGuessRemoved(before, after, p, v) ==
    LET old == before.spaces[p[1]][p[2]]
        new == after.spaces[p[1]][p[2]]
        left == Range(old.possible) \ {v}
    IN  /\ ~old.known /\ v \in Range(old.possible)
        /\ \A q \in Points \ {p} : after.spaces[q[1]][q[2]] = before.spaces[q[1]][q[2]]
        /\ IF Cardinality(left) = 1
           THEN /\ new.known /\ {new.value} = left
                /\ after.empty_spaces = before.empty_spaces - 1
           ELSE /\ ~new.known /\ Range(new.possible) = left
                /\ Len(new.possible) = Cardinality(left)
                /\ after.empty_spaces = before.empty_spaces
        /\ after.initalised = before.initalised

\* The step ends a branch: the guess_board on top of the stack goes away.
BranchEnds == Depth > 1 /\ Len(stack') = Depth - 1

\* The branch on top of the stack has returned solved.
BranchWon == Top.pc = "return" /\ Top.ret

\* C11.  Speculation is isolated from the original: while a guess_board is
\* built, filled and solved, no space and not empty_spaces of the boards
\* below it change; when the branch fails, the change made to the original
\* is the removal of the guessed value from the guessed space and nothing
\* else; and the original takes the state of the guess_board when the branch
\* returned solved, and only then.
C11_SpeculationIsolated ==
    [][/\ Len(stack') > Depth => BoardsKept(Depth)
       /\ Len(stack') = Depth => BoardsKept(Depth - 1)
       /\ BranchEnds =>
            /\ BoardsKept(Depth - 2)
            /\ BranchWon => stack'[Depth - 1].board = Top.board
            /\ ~BranchWon =>
                 /\ OnlyGuessRemoved(stack[Depth - 1].board, stack'[Depth - 1].board,
                                     stack[Depth - 1].point, stack[Depth - 1].guess_value)
                 /\ stack'[Depth - 1].board # Top.board]_vars

\* A guess made on a guess_board has failed: the value was removed from the
\* board the guess was made on, while the boards below it are still waiting.
C11_Witness ==
    /\ last.op = "remove" /\ last.depth >= 2 /\ Depth >= 2
    /\ last.post # last.pre
    /\ OnlyGuessRemoved(last.pre, last.post, last.point, last.value)

\* The step is the last call of narrow in narrow_full, which then returns Ok:
\* to the client, or to solve, which goes on to its is_solved test.
NarrowFullReturns ==
    /\ Top.pc = "narrow" /\ stack'[Depth].pc # "narrow"
    /\ last'.depth = Depth /\ last'.ok

\* What narrow_full returned in the step: kept in ret for the client; in
\* solve it decides between returning true and going on to guess.
NarrowFullResult ==
    IF Top.op = "narrow_full" THEN stack'[Depth].ret
    ELSE stack'[Depth].pc = "return" /\ stack'[Depth].ret

\* A call of narrow on the board would return Ok(0) and leave it as it is.
AtFixpoint(b) ==
    \E r \in {narrow(b)} : r.ok /\ r.new_spaces_known = 0 /\ r.board = b

\* C12.  Postcondition of narrow_full: when it returns Ok, narrow was called
\* at least once, the boolean returned is is_solved() of the board, and when
\* it is false no unit has a digit that none of its Known spaces holds and
\* exactly one of its Unknown spaces lists, so that one more narrow would
\* return 0 and change nothing.
C12_NarrowFullPost ==
    [][NarrowFullReturns =>
         /\ last'.op = "narrow" /\ last'.pre = Top.board
         /\ last'.post = stack'[Depth].board
         /\ NarrowFullResult <=> is_solved(stack'[Depth].board)
         /\ ~NarrowFullResult =>
              /\ NoSingles(stack'[Depth].board.spaces)
              /\ AtFixpoint(stack'[Depth].board)]_vars

\* narrow_full has returned Ok(false) to solve, which goes on to guess: its
\* last call of narrow found nothing on a board with Unknown spaces left.
C12_Witness ==
    /\ Top.op = "solve" /\ Top.pc = "guess"
    /\ last.op = "narrow" /\ last.ok /\ last.count = 0 /\ last.post = Top.board
    /\ ~is_solved(Top.board) /\ UnknownCount(Top.board) > 0

\* The space fill_space was last called on, as it was before the call.
FilledBefore == last.pre.spaces[last.point[1]][last.point[2]]

\* C13.  A rejected fill_space leaves the board untouched: on a space Known
\* with another value it returns the Err of an overwrite, on an Unknown space
\* that does not list the value the Err of an impossible value, and in both
\* cases no space, adjecent ones included, and not empty_spaces is changed.
C13_FillSpaceRejects ==
    last.op = "fill_space" =>
        /\ (FilledBefore.known /\ FilledBefore.value # last.value)
             => /\ ~last.ok /\ last.res = "Tried to overright in a known value"
                /\ last.post = last.pre
        /\ (~FilledBefore.known /\ last.value \notin Range(FilledBefore.possible))
             => /\ ~last.ok /\ last.res = "Not a possible value"
                /\ last.post = last.pre
        /\ last.res \in {"Tried to overright in a known value", "Not a possible value"}
             => ~last.ok /\ last.post = last.pre

\* fill_space was rejected on an Unknown space that lost the value in
\* inital_check, next to Unknown spaces that still list the value.
C13_Witness ==
    /\ last.op = "fill_space" /\ ~last.ok /\ last.res = "Not a possible value"
    /\ last.pre.initalised /\ ~FilledBefore.known
    /\ Len(FilledBefore.possible) < 9
    /\ \E q \in SharingTable[last.point] :
          /\ ~last.pre.spaces[q[1]][q[2]].known
          /\ last.value \in Range(last.pre.spaces[q[1]][q[2]].possible)

\* fill_space was rejected on a Known space holding another value.
OverwriteRejected ==
    /\ last.op = "fill_space" /\ ~last.ok
    /\ last.res = "Tried to overright in a known value"
    /\ FilledBefore.known /\ FilledBefore.value # last.value

\* An Unknown space lists at least two values, all digits, none twice.
WellListed(cell) ==
    cell.known \/ (/\ Len(cell.possible) >= 2
                   /\ Range(cell.possible) \subseteq Digits
                   /\ Cardinality(Range(cell.possible)) = Len(cell.possible))

\* The boards there are: the client's, the guess_boards above it, and the
\* board the last call ran on, before it and as the call left it.
BoardsThere ==
    {stack[i].board : i \in 1..Len(stack)} \cup
    (IF last.op = "none" THEN {} ELSE {last.pre, last.post})

\* C14.  Possible values of Unknown spaces: on every board, the original or
\* a guess_board, after construction and after every remove, inital_check,
\* fill_space, narrow, narrow_full and step of solve, failed ones included,
\* every Unknown space lists at least two distinct digits of 1..9; so does a
\* single space after every sequence of calls of remove.
C14_AtLeastTwoListed ==
    /\ WellListed(space)
    /\ \A b \in BoardsThere : \A p \in Points : WellListed(b.spaces[p[1]][p[2]])

\* A failed fill_space on a guess_board has left Unknown spaces with exactly
\* two possible values behind, and Unknown spaces that lost values.
C14_Witness ==
    /\ Depth >= 2 /\ last.op = "fill_space" /\ ~last.ok /\ last.post = Top.board
    /\ \E p \in Points : /\ ~Top.board.spaces[p[1]][p[2]].known
                          /\ Len(Top.board.spaces[p[1]][p[2]].possible) = 2
    /\ \E p \in Points : /\ ~last.post.spaces[p[1]][p[2]].known
                          /\ Len(last.post.spaces[p[1]][p[2]].possible)
                               < Len(last.pre.spaces[p[1]][p[2]].possible)

==============================================================================
